---- MODULE Spec2Model ----
(***************************************************************************)
(* rat: rationalise a list of files by turning identical copies into hard  *)
(* links (src/rat.c).  The model covers classification (enter, newinfo,    *)
(* assoc), consolidation (combine, comb2, replace), the link swap          *)
(* (replace2) one filesystem primitive per step, the byte comparison       *)
(* (compare) and the priority boost (raisepriority, lowerpriority), over a *)
(* small filesystem of directory entries, inodes and link counts.          *)
(***************************************************************************)
EXTENDS Integers, Sequences, FiniteSets, TLC

(* ---------------------------------------------------------------------- *)
(* Bounds of the model                                                     *)
(* ---------------------------------------------------------------------- *)
\* links to an inode held by names outside the candidate list
MaxExt == 2
\* the clock read by time() advances at most this far during the runs
MaxClock == 1
\* the program is run at most this many times on the same filesystem
MaxRuns == 2
\* bytes read per read() call in compare (scaled down from stdio's BUFSIZ)
BUFSIZ == 1
\* longest file that compare is called on by itself
MaxLen == 3

(* ---------------------------------------------------------------------- *)
(* Program constants                                                       *)
(* ---------------------------------------------------------------------- *)
PRIORITY == -5
NOSUCHFILE == -1
NOTDIR == 0
ISDIR == 1
\* replace2 has not returned
NoRet == 2

(* ---------------------------------------------------------------------- *)
(* The filesystem                                                          *)
(* ---------------------------------------------------------------------- *)
\* the candidate file names, in the order they are given on the command line
Args == <<"a", "b", "c">>
Names == {"a", "b", "c"}
Inodes == 100..103
NoFile == 0
\* file contents (byte sequences): X and Y have the same size, ZZ another
X == <<1>>
Y == <<2>>
ZZ == <<1, 1>>
Contents == {X, Y, ZZ}
\* the name replace2 builds for the save file: "to" + pid + clock
BackupNames == Names \X (0..MaxClock)
NoName == <<"-", 0>>
\* the effective user ids geteuid() can report
Euids == {0, 1000}

VARIABLES
    dir,        \* directory entries of the candidate names: name -> inode or NoFile
    bak,        \* directory entries of the save-file names: <<name, clock>> -> inode or NoFile
    content,    \* inode -> bytes
    ext,        \* inode -> number of links from names outside the candidate list
    attr,       \* inode -> [dev, uid, gid, perms]
    ftype,      \* inode -> "reg", "dir", "chr" (special file) or "lnk" (symbolic link)
    lnk,        \* inode of a symbolic link -> the kind of file its path named at
                \* the start and, for a regular file, the name it leads to: [type, name]
    readable,   \* inode -> open(O_RDONLY) on it succeeds
    place,      \* candidate name -> the directory its path lies in (1 or 2)
    far,        \* the file that the name written in a symbolic link names in the
                \* directory the link was not made in: inode or NoFile
    noexec, verbose, ignore_uid, ignore_gid, ignore_perms, ignore_empty,  \* option flags
    symbolic, debug,                                        \* option flags -s and -d
    clock,      \* the time of day, as time() reports it
    niceness, our_uid,                                      \* priority globals
    boost,      \* calls of raisepriority not yet followed by lowerpriority
    pc,         \* position of the program
    run,        \* number of the current run
    argi,       \* index of the next argument to enter
    list,       \* the associativity list: sequence of Head records
    cur,        \* the Info list combine is working on
    elem, todo, kept,   \* comb2: the head, the rest of ilist, the members kept so far
    from, to, newname,  \* replace2's arguments and save-file name
    ret,        \* what the latest call of replace2 returned, NoRet during a call
    out,        \* what was printed: sequence of <<channel, message, to, from>>
    ops,        \* number of rename/link/unlink calls made in this run
    anyfail,    \* a rename, link or unlink has failed
    cat,        \* names whose restoring rename failed after a failed link
    cmps,       \* the calls of compare in this run: <<file1, file2, result>>
    lastcmp,    \* the latest call of compare
    retired,    \* for each name, how many times link() recreated it
    member,     \* name -> first member of the class it was entered in ("-": none)
    hdr,        \* name -> the header newinfo filled in for it
    dir0,       \* the directory before the first run
    prev,       \* the run before this one: its -n flag and what it printed
    tried       \* the calls of replace in this combine: sequence of <<head, member>>

envvars == <<ftype, lnk, readable, place, far>>
fsvars == <<dir, bak, content, ext, attr, envvars>>
optvars == <<noexec, verbose, ignore_uid, ignore_gid, ignore_perms, ignore_empty,
             symbolic, debug>>
r2vars == <<from, to, newname, ret>>
vars == <<dir, bak, content, ext, attr, ftype, lnk, readable, place, far, noexec, verbose,
          ignore_uid, ignore_gid, ignore_perms, ignore_empty, symbolic, debug, clock,
          niceness, our_uid, boost, pc, run, argi, list, cur, elem, todo, kept, from,
          to, newname, ret, out, ops, anyfail, cat, cmps, lastcmp, retired, member, hdr, dir0,
          prev, tried>>

\* st_nlink of inode i in the directory state d, b
nlink(d, b, i) ==
    Cardinality({n \in Names : d[n] = i})
    + Cardinality({k \in BackupNames : b[k] = i}) + ext[i]

\* a symbolic link's inode when nothing is behind it, and any other inode
NoLink == [type |-> "none", name |-> "-"]

\* the inode the symbolic link i, met in the directory p, leads to by way of
\* the name written in it: a relative name, looked up in the directory the
\* link is met in. NoFile when that name is absent there or the links lead
\* back to themselves (n: the number of links that may still be followed)
RECURSIVE Follow(_, _, _, _)
Follow(d, p, i, n) ==
    IF lnk[i].type # "reg" \/ n = 0 THEN NoFile
    ELSE LET t == IF place[lnk[i].name] = p THEN d[lnk[i].name] ELSE far
         IN  IF t = NoFile THEN NoFile
             ELSE IF ftype[t] = "lnk" THEN Follow(d, p, t, n - 1)
             ELSE t

\* the regular file behind the symbolic link i met in the directory p
Behind(d, p, i) == Follow(d, p, i, Cardinality(Inodes))

\* the stat record of a call that failed
NoStat == [ok |-> FALSE, st_ino |-> NoFile, st_nlink |-> 0, st_size |-> 0, st_type |-> "none"]

\* lstat(name): the stat record of the directory entry itself
lstat(d, b, name) ==
    IF d[name] = NoFile THEN NoStat
    ELSE [ok |-> TRUE, st_ino |-> d[name], st_nlink |-> nlink(d, b, d[name]),
          st_size |-> Len(content[d[name]]), st_type |-> ftype[d[name]]]

\* stat(name): as lstat, but of the file behind a symbolic link
stat(d, b, name) ==
    IF d[name] = NoFile THEN NoStat
    ELSE IF ftype[d[name]] # "lnk" THEN lstat(d, b, name)
    ELSE IF lnk[d[name]].type = "none" THEN NoStat
    ELSE IF lnk[d[name]].type # "reg"
    THEN [ok |-> TRUE, st_ino |-> NoFile, st_nlink |-> 1, st_size |-> 0,
          st_type |-> lnk[d[name]].type]
    ELSE IF Behind(d, place[name], d[name]) = NoFile THEN NoStat
    ELSE [ok |-> TRUE, st_ino |-> Behind(d, place[name], d[name]),
          st_nlink |-> nlink(d, b, Behind(d, place[name], d[name])),
          st_size |-> Len(content[Behind(d, place[name], d[name])]), st_type |-> "reg"]

\* the inode open(name) reads, NoFile when the open fails: symbolic links are
\* followed, and the file must be there and readable
Open(d, name) ==
    LET i == IF d[name] # NoFile /\ ftype[d[name]] = "lnk" THEN Behind(d, place[name], d[name])
             ELSE d[name]
    IN  IF i # NoFile /\ readable[i] THEN i ELSE NoFile

DefaultAttr == [dev |-> 1, uid |-> 1000, gid |-> 100, perms |-> 420]

(* ---------------------------------------------------------------------- *)
(* compare                                                                 *)
(* ---------------------------------------------------------------------- *)
Min(x, y) == IF x < y THEN x ELSE y

\* read(fd, buf, BUFSIZ) at offset off of the bytes c; a file that has been
\* opened is read without error
ReadChunk(c, off) == SubSeq(c, off + 1, Min(Len(c), off + BUFSIZ))

RECURSIVE CompareLoop(_, _, _)
CompareLoop(c1, c2, off) ==
    LET buf1 == ReadChunk(c1, off)
        buf2 == ReadChunk(c2, off)
    IN  IF Len(buf1) # Len(buf2) THEN 1
        ELSE IF buf1 # buf2 THEN 1
        ELSE IF Len(buf1) > 0 /\ Len(buf2) > 0 THEN CompareLoop(c1, c2, off + BUFSIZ)
        ELSE 0

\* the offset of the chunk at which compare's loop ends
RECURSIVE CompareStop(_, _, _)
CompareStop(c1, c2, off) ==
    LET buf1 == ReadChunk(c1, off)
        buf2 == ReadChunk(c2, off)
    IN  IF Len(buf1) # Len(buf2) THEN off
        ELSE IF buf1 # buf2 THEN off
        ELSE IF Len(buf1) > 0 /\ Len(buf2) > 0 THEN CompareStop(c1, c2, off + BUFSIZ)
        ELSE off

\* compare that takes two files for equal when the first chunks are
compare_firstchunk(d, file1, file2) ==
    IF Open(d, file1) = NoFile THEN -1
    ELSE IF Open(d, file2) = NoFile THEN -1
    ELSE IF ReadChunk(content[Open(d, file1)], 0) # ReadChunk(content[Open(d, file2)], 0)
    THEN 1
    ELSE 0

compare(d, file1, file2) ==
    IF Open(d, file1) = NoFile THEN -1
    ELSE IF Open(d, file2) = NoFile THEN -1
    ELSE CompareLoop(content[Open(d, file1)], content[Open(d, file2)], 0)

(* ---------------------------------------------------------------------- *)
(* Classification: newinfo, assoc, enter                                   *)
(* ---------------------------------------------------------------------- *)
\* newinfo that takes a special file for a regular one
newinfo_special(d, b, filename) ==
    LET lstbuf == lstat(d, b, filename)
        stbuf == IF lstbuf.st_type = "lnk" THEN stat(d, b, filename) ELSE lstbuf
    IN  IF ~lstbuf.ok THEN [ret |-> NOSUCHFILE, head |-> <<>>]
        ELSE IF lstbuf.st_type = "lnk" /\ ~symbolic THEN [ret |-> NOSUCHFILE, head |-> <<>>]
        ELSE IF ~stbuf.ok THEN [ret |-> NOSUCHFILE, head |-> <<>>]
        ELSE IF stbuf.st_type = "dir" THEN [ret |-> ISDIR, head |-> <<>>]
        ELSE IF stbuf.st_type \notin {"reg", "chr"} \/ stbuf.st_ino = NoFile
        THEN [ret |-> NOSUCHFILE, head |-> <<>>]
        ELSE IF ignore_empty /\ stbuf.st_size = 0 THEN [ret |-> NOSUCHFILE, head |-> <<>>]
        ELSE [ret |-> NOTDIR,
              head |-> [h_info |-> <<[i_name |-> filename, i_ino |-> stbuf.st_ino]>>,
                        h_size |-> stbuf.st_size,
                        h_dev |-> attr[stbuf.st_ino].dev,
                        h_uid |-> attr[stbuf.st_ino].uid,
                        h_gid |-> attr[stbuf.st_ino].gid,
                        h_perms |-> attr[stbuf.st_ino].perms]]

\* newinfo: stat the file and fill in a header with one new Info
newinfo(d, b, filename) ==
    LET lstbuf == lstat(d, b, filename)
        stbuf == IF lstbuf.st_type = "lnk" THEN stat(d, b, filename) ELSE lstbuf
    IN  IF ~lstbuf.ok THEN [ret |-> NOSUCHFILE, head |-> <<>>]
        ELSE IF lstbuf.st_type = "lnk" /\ ~symbolic THEN [ret |-> NOSUCHFILE, head |-> <<>>]
        ELSE IF ~stbuf.ok THEN [ret |-> NOSUCHFILE, head |-> <<>>]
        ELSE IF stbuf.st_type = "dir" THEN [ret |-> ISDIR, head |-> <<>>]
        ELSE IF stbuf.st_type # "reg" THEN [ret |-> NOSUCHFILE, head |-> <<>>]
        ELSE IF ignore_empty /\ stbuf.st_size = 0 THEN [ret |-> NOSUCHFILE, head |-> <<>>]
        ELSE [ret |-> NOTDIR,
              head |-> [h_info |-> <<[i_name |-> filename, i_ino |-> stbuf.st_ino]>>,
                        h_size |-> stbuf.st_size,
                        h_dev |-> attr[stbuf.st_ino].dev,
                        h_uid |-> attr[stbuf.st_ino].uid,
                        h_gid |-> attr[stbuf.st_ino].gid,
                        h_perms |-> attr[stbuf.st_ino].perms]]

\* assoc's test without the size
Fits_nosize(hp, listp) ==
    /\ hp.h_dev = listp.h_dev
    /\ (ignore_uid \/ hp.h_uid = listp.h_uid)
    /\ (ignore_gid \/ hp.h_gid = listp.h_gid)
    /\ (ignore_perms \/ hp.h_perms = listp.h_perms)

\* assoc's test without the device
Fits_nodev(hp, listp) ==
    /\ hp.h_size = listp.h_size
    /\ (ignore_uid \/ hp.h_uid = listp.h_uid)
    /\ (ignore_gid \/ hp.h_gid = listp.h_gid)
    /\ (ignore_perms \/ hp.h_perms = listp.h_perms)

\* assoc's test: the file hp fits into the class listp
Fits(hp, listp) ==
    /\ hp.h_size = listp.h_size
    /\ hp.h_dev = listp.h_dev
    /\ (ignore_uid \/ hp.h_uid = listp.h_uid)
    /\ (ignore_gid \/ hp.h_gid = listp.h_gid)
    /\ (ignore_perms \/ hp.h_perms = listp.h_perms)

\* assoc that puts the file at the end of the class it fits into
assoc_atend(hp, l) ==
    LET fit == {i \in 1..Len(l) : Fits(hp, l[i])}
    IN  IF fit # {}
        THEN LET k == CHOOSE i \in fit : \A j \in fit : i <= j
             IN  [l EXCEPT ![k].h_info = l[k].h_info \o hp.h_info]
        ELSE <<hp>> \o l

\* assoc that puts a new class at the end of the list
assoc_pushback(hp, l) ==
    LET fit == {i \in 1..Len(l) : Fits(hp, l[i])}
    IN  IF fit # {}
        THEN LET k == CHOOSE i \in fit : \A j \in fit : i <= j
             IN  [l EXCEPT ![k].h_info = hp.h_info \o l[k].h_info]
        ELSE l \o <<hp>>

\* assoc that looks at the first class of the list only
assoc_firstonly(hp, l) ==
    IF l # <<>> /\ Fits(hp, l[1])
    THEN [l EXCEPT ![1].h_info = hp.h_info \o l[1].h_info]
    ELSE <<hp>> \o l

\* assoc: enter hp in the first class it fits into, or push a new class
assoc(hp, l) ==
    LET fit == {i \in 1..Len(l) : Fits(hp, l[i])}
    IN  IF fit # {}
        THEN LET k == CHOOSE i \in fit : \A j \in fit : i <= j
             IN  [l EXCEPT ![k].h_info = hp.h_info \o l[k].h_info]
        ELSE <<hp>> \o l

\* enter, called by associate for each argument in turn; for a directory
\* associate goes on to enterdir, and the directories here have no entries
Enter ==
    /\ pc = "associate"
    /\ argi <= Len(Args)
    /\ LET r == newinfo(dir, bak, Args[argi])
       IN  IF r.ret \in {NOSUCHFILE, ISDIR}
           THEN UNCHANGED <<list, member, hdr>>
           ELSE LET l2 == assoc(r.head, list)
                    k == CHOOSE i \in 1..Len(l2) :
                             \E j \in 1..Len(l2[i].h_info) : l2[i].h_info[j].i_name = Args[argi]
                    others == {l2[k].h_info[j].i_name : j \in 1..Len(l2[k].h_info)}
                              \ {Args[argi]}
                IN  /\ list' = l2
                    /\ member' = [member EXCEPT ![Args[argi]] =
                                     IF others = {} THEN Args[argi]
                                     ELSE member[CHOOSE o \in others : TRUE]]
                    /\ hdr' = [hdr EXCEPT ![Args[argi]] = [r.head EXCEPT !.h_info = <<>>]]
    /\ argi' = argi + 1
    /\ UNCHANGED <<fsvars, optvars, clock, niceness, boost, our_uid, pc, run, cur, elem,
                   todo, kept, r2vars, out, ops, anyfail, cat, cmps, lastcmp, retired, dir0, prev, tried>>

\* associate has entered every argument: main starts on the classes
Associated ==
    /\ pc = "associate"
    /\ argi > Len(Args)
    /\ pc' = "main"
    /\ UNCHANGED <<fsvars, optvars, clock, niceness, boost, our_uid, run, argi, list, cur,
                   elem, todo, kept, r2vars, out, ops, anyfail, cat, cmps, lastcmp, retired,
                   member, hdr, dir0, prev, tried>>

\* a program in which malloc is also called, and may fail, inside comb2
Fatal_late ==
    /\ pc \in {"associate", "comb2"}
    /\ out' = Append(out, <<"stderr", "Out of memory", "-", "-">>)
    /\ pc' = "fatal"
    /\ UNCHANGED <<fsvars, optvars, clock, niceness, boost, our_uid, run, argi, list,
                   cur, elem, todo, kept, r2vars, ops, anyfail, cat, cmps, lastcmp,
                   retired, member, hdr, dir0, prev, tried>>

\* fatal: the list file cannot be opened (before the first line is read),
\* a line of it is too long, or malloc fails in mkpath, newinfo or newhead
\* while a file is entered; the message goes to stderr and the exit status is 1
Fatal ==
    /\ pc = "associate"
    /\ \E why \in {"Cannot open", "Line too long", "Out of memory"} :
         /\ (why = "Cannot open") => argi = 1
         /\ (why = "Out of memory") => argi <= Len(Args)
         /\ out' = Append(out, <<"stderr", why, "-", "-">>)
    /\ pc' = "fatal"
    /\ UNCHANGED <<fsvars, optvars, clock, niceness, boost, our_uid, run, argi, list,
                   cur, elem, todo, kept, r2vars, ops, anyfail, cat, cmps, lastcmp,
                   retired, member, hdr, dir0, prev, tried>>

(* ---------------------------------------------------------------------- *)
(* Consolidation: main, combine, comb2, replace                            *)
(* ---------------------------------------------------------------------- *)
NoInfo == [i_name |-> "-", i_ino |-> NoFile]

\* main: while (list != NULL) combine(list->h_info)
MainLoop ==
    /\ pc = "main"
    /\ IF list = <<>>
       THEN /\ pc' = "exit"
            /\ cur' = cur
            /\ tried' = tried
       ELSE /\ pc' = "combine"
            /\ cur' = list[1].h_info
            /\ tried' = <<>>
    /\ UNCHANGED <<fsvars, optvars, clock, niceness, boost, our_uid, run, argi, list, elem,
                   todo, kept, r2vars, out, ops, anyfail, cat, cmps, lastcmp, retired, member,
                   hdr, dir0, prev>>

\* a combine that hands comb2 the whole list, its first member included
Combine_whole ==
    /\ pc = "combine"
    /\ IF Len(cur) >= 2
       THEN /\ elem' = cur[1]
            /\ todo' = cur
            /\ kept' = <<>>
            /\ pc' = "comb2"
            /\ list' = list
       ELSE /\ list' = Tail(list)
            /\ pc' = "main"
            /\ UNCHANGED <<elem, todo, kept>>
    /\ UNCHANGED <<fsvars, optvars, clock, niceness, boost, our_uid, run, argi, cur, r2vars,
                   out, ops, anyfail, cat, cmps, lastcmp, retired, member, hdr, dir0, prev,
                   tried>>

\* combine: while (list != NULL && list->i_next != NULL) list = comb2(list, list->i_next)
Combine ==
    /\ pc = "combine"
    /\ IF Len(cur) >= 2
       THEN /\ elem' = cur[1]
            /\ todo' = Tail(cur)
            /\ kept' = <<>>
            /\ pc' = "comb2"
            /\ list' = list
       ELSE /\ list' = Tail(list)
            /\ pc' = "main"
            /\ UNCHANGED <<elem, todo, kept>>
    /\ UNCHANGED <<fsvars, optvars, clock, niceness, boost, our_uid, run, argi, cur, r2vars,
                   out, ops, anyfail, cat, cmps, lastcmp, retired, member, hdr, dir0, prev,
                   tried>>

\* a comb2 that may return before it has been through ilist, handing back
\* the members kept and the members not yet seen
Comb2End_early ==
    /\ pc = "comb2"
    /\ cur' = kept \o todo
    /\ elem' = NoInfo
    /\ kept' = <<>>
    /\ pc' = "combine"
    /\ UNCHANGED <<fsvars, optvars, clock, niceness, boost, our_uid, run, argi, list, todo,
                   r2vars, out, ops, anyfail, cat, cmps, lastcmp, retired, member, hdr, dir0, prev, tried>>

\* comb2 with ilist == NULL: the members kept become combine's list
Comb2End ==
    /\ pc = "comb2"
    /\ todo = <<>>
    /\ cur' = kept
    /\ elem' = NoInfo
    /\ kept' = <<>>
    /\ pc' = "combine"
    /\ UNCHANGED <<fsvars, optvars, clock, niceness, boost, our_uid, run, argi, list, todo,
                   r2vars, out, ops, anyfail, cat, cmps, lastcmp, retired, member, hdr, dir0, prev, tried>>

\* comb2 that drops ilist's first member whatever replace returned
Comb2Next_drop(r) ==
    /\ todo' = Tail(todo)
    /\ kept' = kept
    /\ pc' = "comb2"

\* comb2 after replace(elem, ilist) returned r: drop ilist's first member
\* if r is non-zero, keep it otherwise, and go on with ilist->i_next
Comb2Next(r) ==
    /\ todo' = Tail(todo)
    /\ kept' = IF r # 0 THEN kept ELSE Append(kept, Head(todo))
    /\ pc' = "comb2"

\* raisepriority, with e the result of geteuid()
raisepriority(e) ==
    /\ our_uid' = IF our_uid = -1 THEN e ELSE our_uid
    /\ niceness' = IF our_uid' = 0 THEN niceness + PRIORITY ELSE niceness
    /\ boost' = boost + 1

\* a replace2 that returns without calling lowerpriority
lowerpriority_forgotten == UNCHANGED <<niceness, boost>>

\* lowerpriority
lowerpriority ==
    /\ niceness' = IF our_uid = 0 THEN 0 ELSE niceness
    /\ boost' = boost - 1

\* replace's choice of direction with the test the other way round
Direction_reversed(a, b, stbuf_a, stbuf_b) ==
    IF stbuf_b.st_nlink >= stbuf_a.st_nlink
    THEN <<a.i_name, b.i_name>>
    ELSE <<b.i_name, a.i_name>>

\* replace's choice of direction with < for <=: equal counts retire the head
Direction_strict(a, b, stbuf_a, stbuf_b) ==
    IF stbuf_b.st_nlink < stbuf_a.st_nlink
    THEN <<a.i_name, b.i_name>>
    ELSE <<b.i_name, a.i_name>>

\* replace's choice of direction: <<from, to>> for replace2
Direction(a, b, stbuf_a, stbuf_b) ==
    IF stbuf_b.st_nlink <= stbuf_a.st_nlink
    THEN <<a.i_name, b.i_name>>
    ELSE <<b.i_name, a.i_name>>

\* replace2 that reports the dry run and goes on to do the swap all the same
Replace2_nodry(f, t) ==
    /\ \E c \in {clock, Min(clock + 1, MaxClock)} :
         /\ clock' = c
         /\ newname' = <<t, c>>
    /\ \E e \in Euids : raisepriority(e)
    /\ from' = f
    /\ to' = t
    /\ ret' = NoRet
    /\ pc' = "rename"
    /\ out' = IF noexec THEN Append(out, <<"stdout", "link", t, f>>) ELSE out
    /\ UNCHANGED <<todo, kept>>

\* replace2 up to its first primitive: the dry-run report, or the save-file
\* name, the priority boost, and on to rename(to, newname)
Replace2(f, t) ==
    IF noexec
    THEN /\ out' = Append(out, <<"stdout", "link", t, f>>)
         /\ Comb2Next(1)
         /\ ret' = 1
         /\ UNCHANGED <<clock, niceness, boost, our_uid, from, to, newname>>
    ELSE /\ \E c \in {clock, Min(clock + 1, MaxClock)} :
              /\ clock' = c
              /\ newname' = <<t, c>>
         /\ \E e \in Euids : raisepriority(e)
         /\ from' = f
         /\ to' = t
         /\ ret' = NoRet
         /\ pc' = "rename"
         /\ UNCHANGED <<out, todo, kept>>

\* comb2 calling replace(elem, ilist), as far as replace2's first primitive;
\* eio is the name, if any, on which lstat fails though the file is there
Replace ==
    /\ pc = "comb2"
    /\ todo # <<>>
    /\ tried' = Append(tried, <<elem.i_name, Head(todo).i_name>>)
    /\ LET a == elem
           b == Head(todo)
       IN  IF a.i_ino = b.i_ino
           THEN /\ Comb2Next(1)
                /\ UNCHANGED <<cmps, lastcmp, out, clock, niceness, boost, our_uid, r2vars,
                               anyfail>>
           ELSE /\ cmps' = cmps \cup {<<a.i_name, b.i_name, compare(dir, a.i_name, b.i_name)>>}
                /\ lastcmp' = <<a.i_name, b.i_name, compare(dir, a.i_name, b.i_name)>>
                /\ IF compare(dir, a.i_name, b.i_name) # 0
                   THEN /\ Comb2Next(0)
                        /\ UNCHANGED <<out, clock, niceness, boost, our_uid, r2vars, anyfail>>
                   ELSE \E eio \in {"-", a.i_name, b.i_name} :
                        LET stbuf_a == IF eio = a.i_name THEN NoStat
                                       ELSE lstat(dir, bak, a.i_name)
                            stbuf_b == IF eio = b.i_name THEN NoStat
                                       ELSE lstat(dir, bak, b.i_name)
                        IN  IF ~stbuf_a.ok
                            THEN /\ out' = Append(out, <<"stderr", "Cannot restat",
                                                         a.i_name, "-">>)
                                 /\ Comb2Next(0)
                                 /\ anyfail' = TRUE
                                 /\ UNCHANGED <<clock, niceness, boost, our_uid, r2vars>>
                            ELSE IF ~stbuf_b.ok
                            THEN /\ out' = Append(out, <<"stderr", "Cannot restat",
                                                         b.i_name, "-">>)
                                 /\ Comb2Next(0)
                                 /\ anyfail' = TRUE
                                 /\ UNCHANGED <<clock, niceness, boost, our_uid, r2vars>>
                            ELSE /\ Replace2(Direction(a, b, stbuf_a, stbuf_b)[1],
                                             Direction(a, b, stbuf_a, stbuf_b)[2])
                                 /\ UNCHANGED anyfail
    /\ UNCHANGED <<fsvars, optvars, run, argi, list, cur, elem, ops, cat,
                   retired, member, hdr, dir0, prev>>

(* ---------------------------------------------------------------------- *)
(* The link swap: replace2, one filesystem primitive per step              *)
(* ---------------------------------------------------------------------- *)
\* a replace that returns 0 when replace2 is over, so that comb2 keeps the member
Replace2Return_keep(r) ==
    /\ Comb2Next(0)
    /\ from' = "-"
    /\ to' = "-"
    /\ newname' = NoName
    /\ ret' = r

\* replace2 is over and returns r; replace returns 1 whatever r is
Replace2Return(r) ==
    /\ Comb2Next(1)
    /\ from' = "-"
    /\ to' = "-"
    /\ newname' = NoName
    /\ ret' = r

\* replace2 that goes on to link(from, to) though rename(to, newname) failed
Rename_goon ==
    /\ pc = "rename"
    /\ ops' = ops + 1
    /\ \E fail \in BOOLEAN :
         IF fail \/ dir[to] = NoFile
         THEN /\ out' = IF debug THEN Append(out, <<"stderr", "rename", to, from>>)
                       ELSE out
              /\ anyfail' = TRUE
              /\ UNCHANGED <<dir, bak>>
         ELSE /\ IF bak[newname] = dir[to]
                 THEN UNCHANGED <<dir, bak>>
                 ELSE /\ bak' = [bak EXCEPT ![newname] = dir[to]]
                      /\ dir' = [dir EXCEPT ![to] = NoFile]
              /\ UNCHANGED <<out, anyfail>>
    /\ pc' = "link"
    /\ UNCHANGED <<content, ext, attr, envvars, optvars, clock, our_uid, run, argi, list, cur,
                   elem, cat, cmps, lastcmp, retired, member, hdr, dir0, prev, tried, niceness, boost,
                   todo, kept, r2vars>>

\* replace2 that reports a failed rename(to, newname) whatever the debug flag
Rename_report ==
    /\ pc = "rename"
    /\ ops' = ops + 1
    /\ \E fail \in BOOLEAN :
         IF fail \/ dir[to] = NoFile
         THEN /\ out' = Append(out, <<"stderr", "rename", to, from>>)
              /\ lowerpriority
              /\ anyfail' = TRUE
              /\ Replace2Return(0)
              /\ UNCHANGED <<dir, bak>>
         ELSE /\ IF bak[newname] = dir[to]
                 THEN UNCHANGED <<dir, bak>>
                 ELSE /\ bak' = [bak EXCEPT ![newname] = dir[to]]
                      /\ dir' = [dir EXCEPT ![to] = NoFile]
              /\ pc' = "link"
              /\ UNCHANGED <<out, niceness, boost, anyfail, todo, kept, r2vars>>
    /\ UNCHANGED <<content, ext, attr, envvars, optvars, clock, our_uid, run, argi, list, cur,
                   elem, cat, cmps, lastcmp, retired, member, hdr, dir0, prev, tried>>

\* rename(to, newname): fails when "to" is missing or when the system says so
\* (fail); with both names on one inode it succeeds and does nothing
Rename ==
    /\ pc = "rename"
    /\ ops' = ops + 1
    /\ \E fail \in BOOLEAN :
         IF fail \/ dir[to] = NoFile
         THEN /\ out' = IF debug THEN Append(out, <<"stderr", "rename", to, from>>)
                       ELSE out
              /\ lowerpriority
              /\ anyfail' = TRUE
              /\ Replace2Return(0)
              /\ UNCHANGED <<dir, bak>>
         ELSE /\ IF bak[newname] = dir[to]
                 THEN UNCHANGED <<dir, bak>>
                 ELSE /\ bak' = [bak EXCEPT ![newname] = dir[to]]
                      /\ dir' = [dir EXCEPT ![to] = NoFile]
              /\ pc' = "link"
              /\ UNCHANGED <<out, niceness, boost, anyfail, todo, kept, r2vars>>
    /\ UNCHANGED <<content, ext, attr, envvars, optvars, clock, our_uid, run, argi, list, cur,
                   elem, cat, cmps, lastcmp, retired, member, hdr, dir0, prev, tried>>

\* the inodes link(name, ...) may give a new name to: a symbolic link itself
\* or, where the system follows it, the regular file behind it
LinkSources(d, name) ==
    IF ftype[d[name]] = "lnk" /\ Behind(d, place[name], d[name]) # NoFile
    THEN {d[name], Behind(d, place[name], d[name])}
    ELSE {d[name]}

\* a replace2 that goes on to unlink(newname) without looking at what
\* link(from, to) returned
Link_unchecked ==
    /\ pc = "link"
    /\ ops' = ops + 1
    /\ \E fail \in BOOLEAN :
         IF fail \/ dir[from] = NoFile \/ dir[to] # NoFile
         THEN /\ anyfail' = TRUE
              /\ UNCHANGED <<dir, retired>>
         ELSE /\ \E i \in LinkSources(dir, from) : dir' = [dir EXCEPT ![to] = i]
              /\ retired' = [retired EXCEPT ![to] = @ + 1]
              /\ UNCHANGED anyfail
    /\ lowerpriority
    /\ pc' = "unlink"
    /\ UNCHANGED <<bak, content, ext, attr, envvars, optvars, clock, our_uid, run, argi, list,
                   cur, elem, todo, kept, r2vars, out, cat, cmps, lastcmp, member, hdr, dir0, prev, tried>>

\* link(from, to): fails when "from" is missing, when "to" exists, or when the
\* system says so; on success lowerpriority and on to unlink(newname)
Link ==
    /\ pc = "link"
    /\ ops' = ops + 1
    /\ \E fail \in BOOLEAN :
         IF fail \/ dir[from] = NoFile \/ dir[to] # NoFile
         THEN /\ anyfail' = TRUE
              /\ pc' = "restore"
              /\ UNCHANGED <<dir, niceness, boost, retired>>
         ELSE /\ \E i \in LinkSources(dir, from) : dir' = [dir EXCEPT ![to] = i]
              /\ retired' = [retired EXCEPT ![to] = @ + 1]
              /\ lowerpriority
              /\ pc' = "unlink"
              /\ UNCHANGED anyfail
    /\ UNCHANGED <<bak, content, ext, attr, envvars, optvars, clock, our_uid, run, argi, list,
                   cur, elem, todo, kept, r2vars, out, cat, cmps, lastcmp, member, hdr, dir0, prev, tried>>

\* replace2 that puts the file back with link(newname, to) and leaves newname
Restore_keepsave ==
    /\ pc = "restore"
    /\ ops' = ops + 1
    /\ \E fail \in BOOLEAN :
         IF fail \/ bak[newname] = NoFile \/ dir[to] # NoFile
         THEN /\ cat' = cat \cup {to}
              /\ out' = IF debug THEN Append(out, <<"stderr", "rename", newname[1], to>>)
                        ELSE out
              /\ Replace2Return(0)
              /\ UNCHANGED <<dir, bak>>
         ELSE /\ dir' = [dir EXCEPT ![to] = bak[newname]]
              /\ bak' = bak
              /\ out' = Append(out, <<"stderr", "failed to link", to, from>>)
              /\ Replace2Return(-1)
              /\ UNCHANGED cat
    /\ lowerpriority
    /\ UNCHANGED <<content, ext, attr, envvars, optvars, clock, our_uid, run, argi, list, cur,
                   elem, anyfail, cmps, lastcmp, retired, member, hdr, dir0, prev, tried>>

\* replace2 that ends the program when the restoring rename fails
Restore_exit ==
    /\ pc = "restore"
    /\ ops' = ops + 1
    /\ \E fail \in BOOLEAN :
         IF fail \/ bak[newname] = NoFile
         THEN /\ cat' = cat \cup {to}
              /\ out' = Append(out, <<"stderr", "rename", newname[1], to>>)
              /\ pc' = "fatal"
              /\ UNCHANGED <<dir, bak, niceness, boost, todo, kept, r2vars>>
         ELSE /\ IF dir[to] = bak[newname]
                 THEN UNCHANGED <<dir, bak>>
                 ELSE /\ dir' = [dir EXCEPT ![to] = bak[newname]]
                      /\ bak' = [bak EXCEPT ![newname] = NoFile]
              /\ out' = Append(out, <<"stderr", "failed to link", to, from>>)
              /\ lowerpriority
              /\ Replace2Return(-1)
              /\ UNCHANGED cat
    /\ UNCHANGED <<content, ext, attr, envvars, optvars, clock, our_uid, run, argi, list, cur,
                   elem, anyfail, cmps, lastcmp, retired, member, hdr, dir0, prev, tried>>

\* link failed: rename(newname, to) to put the file back
Restore ==
    /\ pc = "restore"
    /\ ops' = ops + 1
    /\ \E fail \in BOOLEAN :
         IF fail \/ bak[newname] = NoFile
         THEN /\ cat' = cat \cup {to}
              /\ out' = IF debug THEN Append(out, <<"stderr", "rename", newname[1], to>>)
                        ELSE out
              /\ Replace2Return(0)
              /\ UNCHANGED <<dir, bak>>
         ELSE /\ IF dir[to] = bak[newname]
                 THEN UNCHANGED <<dir, bak>>
                 ELSE /\ dir' = [dir EXCEPT ![to] = bak[newname]]
                      /\ bak' = [bak EXCEPT ![newname] = NoFile]
              /\ out' = Append(out, <<"stderr", "failed to link", to, from>>)
              /\ Replace2Return(-1)
              /\ UNCHANGED cat
    /\ lowerpriority
    /\ UNCHANGED <<content, ext, attr, envvars, optvars, clock, our_uid, run, argi, list, cur,
                   elem, anyfail, cmps, lastcmp, retired, member, hdr, dir0, prev, tried>>

\* unlink(newname) reports success and leaves the save file in place
Unlink_keep ==
    /\ pc = "unlink"
    /\ ops' = ops + 1
    /\ out' = IF verbose THEN Append(out, <<"stdout", "linking", to, from>>) ELSE out
    /\ Replace2Return(1)
    /\ UNCHANGED <<fsvars, optvars, clock, niceness, boost, our_uid, run, argi, list, cur,
                   elem, anyfail, cat, cmps, lastcmp, retired, member, hdr, dir0, prev, tried>>

\* a replace2 that returns when unlink(newname) fails, before the verbose report
Unlink_return ==
    /\ pc = "unlink"
    /\ ops' = ops + 1
    /\ \E fail \in BOOLEAN :
         LET failed == fail \/ bak[newname] = NoFile
         IN  /\ bak' = IF failed THEN bak ELSE [bak EXCEPT ![newname] = NoFile]
             /\ anyfail' = (anyfail \/ failed)
             /\ out' = IF failed
                       THEN Append(out, <<"stderr", "cannot remove temporary file", to, from>>)
                       ELSE IF verbose THEN Append(out, <<"stdout", "linking", to, from>>)
                       ELSE out
    /\ Replace2Return(1)
    /\ UNCHANGED <<dir, content, ext, attr, envvars, optvars, clock, niceness, boost, our_uid, run,
                   argi, list, cur, elem, cat, cmps, lastcmp, retired, member, hdr, dir0, prev, tried>>

\* link succeeded: unlink(newname), then the verbose report
Unlink ==
    /\ pc = "unlink"
    /\ ops' = ops + 1
    /\ \E fail \in BOOLEAN :
         LET failed == fail \/ bak[newname] = NoFile
             out1 == IF failed
                     THEN Append(out, <<"stderr", "cannot remove temporary file", to, from>>)
                     ELSE out
         IN  /\ bak' = IF failed THEN bak ELSE [bak EXCEPT ![newname] = NoFile]
             /\ anyfail' = (anyfail \/ failed)
             /\ out' = IF verbose THEN Append(out1, <<"stdout", "linking", to, from>>)
                       ELSE out1
    /\ Replace2Return(1)
    /\ UNCHANGED <<dir, content, ext, attr, envvars, optvars, clock, niceness, boost, our_uid, run,
                   argi, list, cur, elem, cat, cmps, lastcmp, retired, member, hdr, dir0, prev, tried>>

(* ---------------------------------------------------------------------- *)
(* Runs                                                                    *)
(* ---------------------------------------------------------------------- *)
NoHdr == [h_info |-> <<>>, h_size |-> -1, h_dev |-> -1, h_uid |-> -1, h_gid |-> -1,
          h_perms |-> -1]

\* the program is started again, without -n, on the filesystem a run
\* without failures left
Restart ==
    /\ pc = "exit"
    /\ run < MaxRuns
    /\ ~anyfail
    /\ run' = run + 1
    /\ pc' = "associate"
    /\ argi' = 1
    /\ list' = <<>>
    /\ cur' = <<>>
    /\ niceness' = 0
    /\ our_uid' = -1
    /\ boost' = 0
    /\ ops' = 0
    /\ out' = <<>>
    /\ cmps' = {}
    /\ lastcmp' = <<"-", "-", 0>>
    /\ member' = [n \in Names |-> "-"]
    /\ hdr' = [n \in Names |-> NoHdr]
    /\ ret' = NoRet
    /\ noexec' = FALSE
    /\ prev' = [noexec |-> noexec, out |-> out]
    /\ tried' = <<>>
    /\ UNCHANGED <<fsvars, verbose, ignore_uid, ignore_gid, ignore_perms, ignore_empty,
                   symbolic, debug, clock, elem, todo, kept, from, to, newname, anyfail,
                   cat, retired, dir0>>

\* the inodes 100, 101, ... are handed out in the order the names need them
Canonical(d) ==
    /\ d["a"] = 100
    /\ d["b"] <= 101
    /\ d["c"] <= d["b"] + 1

\* the program before its first step
InitRun ==
    /\ clock = 0
    /\ niceness = 0
    /\ our_uid = -1
    /\ boost = 0
    /\ pc = "associate"
    /\ run = 1
    /\ argi = 1
    /\ list = <<>>
    /\ cur = <<>>
    /\ elem = NoInfo
    /\ todo = <<>>
    /\ kept = <<>>
    /\ from = "-"
    /\ to = "-"
    /\ newname = NoName
    /\ ret = NoRet
    /\ out = <<>>
    /\ ops = 0
    /\ anyfail = FALSE
    /\ cat = {}
    /\ cmps = {}
    /\ lastcmp = <<"-", "-", 0>>
    /\ retired = [n \in Names |-> 0]
    /\ member = [n \in Names |-> "-"]
    /\ hdr = [n \in Names |-> NoHdr]
    /\ prev = [noexec |-> FALSE, out |-> <<>>]
    /\ tried = <<>>

\* every candidate name lies in the one directory, where the name written in
\* a symbolic link is looked up
OneDirectory ==
    /\ place = [n \in Names |-> 1]
    /\ far = NoFile

Init ==
    /\ dir \in {d \in [Names -> Inodes] : Canonical(d)}
    /\ dir0 = dir
    /\ bak = [k \in BackupNames |-> NoFile]
    /\ content \in [Inodes -> Contents]
    /\ ext \in [Inodes -> 0..MaxExt]
    /\ \A i \in Inodes : (\A n \in Names : dir[n] # i) => (content[i] = X /\ ext[i] = 0)
    /\ attr = [i \in Inodes |-> DefaultAttr]
    /\ ftype = [i \in Inodes |-> "reg"]
    /\ lnk = [i \in Inodes |-> NoLink]
    /\ OneDirectory
    /\ readable = [i \in Inodes |-> TRUE]
    /\ symbolic = FALSE
    /\ debug = FALSE
    /\ noexec \in BOOLEAN
    /\ verbose \in BOOLEAN
    /\ noexec => verbose
    /\ ignore_uid = FALSE
    /\ ignore_gid = FALSE
    /\ ignore_perms = FALSE
    /\ ignore_empty = FALSE
    /\ InitRun

\* the attributes a file of the second start may have: the default ones, or
\* another device, owner, group or mode
Attrs ==
    {DefaultAttr, [DefaultAttr EXCEPT !.dev = 2], [DefaultAttr EXCEPT !.uid = 0],
     [DefaultAttr EXCEPT !.gid = 0], [DefaultAttr EXCEPT !.perms = 384]}

\* what the name c may be at the second start
Kinds == {"reg", "dir", "chr", "absent", "lnk-reg", "lnk-dir", "lnk-chr", "lnk-none"}

\* the file type of inode 102 when c is of kind k
KindType(k) ==
    IF k \in {"reg", "absent"} THEN "reg"
    ELSE IF k \in {"dir", "chr"} THEN k
    ELSE "lnk"

\* what is behind the symbolic link c of kind k: b's file, a directory,
\* a special file or nothing
KindLink(k) ==
    IF k = "lnk-reg" THEN [type |-> "reg", name |-> "b"]
    ELSE IF k = "lnk-dir" THEN [type |-> "dir", name |-> "-"]
    ELSE IF k = "lnk-chr" THEN [type |-> "chr", name |-> "-"]
    ELSE NoLink

\* three files of the same bytes whose attributes and -u -g -p flags vary
InitAttrs ==
    /\ dir = [n \in Names |-> IF n = "a" THEN 100 ELSE IF n = "b" THEN 101 ELSE 102]
    /\ content = [i \in Inodes |-> X]
    /\ attr \in {f \in [Inodes -> Attrs] : f[100] = DefaultAttr /\ f[103] = DefaultAttr}
    /\ ftype = [i \in Inodes |-> "reg"]
    /\ lnk = [i \in Inodes |-> NoLink]
    /\ OneDirectory
    /\ readable = [i \in Inodes |-> TRUE]
    /\ ignore_uid \in BOOLEAN
    /\ ignore_gid \in BOOLEAN
    /\ ignore_perms \in BOOLEAN
    /\ ignore_empty = FALSE
    /\ symbolic = FALSE
    /\ debug = FALSE

\* a and b regular files of the same bytes, c of any kind; files may be
\* empty or unreadable, and the flags -s -z -d vary
InitKinds ==
    /\ \E k \in Kinds :
         /\ dir = [n \in Names |-> IF n = "a" THEN 100 ELSE IF n = "b" THEN 101
                                   ELSE IF k = "absent" THEN NoFile ELSE 102]
         /\ ftype = [i \in Inodes |-> IF i = 102 THEN KindType(k) ELSE "reg"]
         /\ lnk = [i \in Inodes |-> IF i = 102 THEN KindLink(k) ELSE NoLink]
    /\ OneDirectory
    /\ \E ab \in {X, <<>>}, c \in {X, <<>>} :
         content = [i \in Inodes |-> IF i = 102 THEN c ELSE ab]
    /\ readable \in {f \in [Inodes -> BOOLEAN] : f[100] /\ f[103]}
    /\ attr = [i \in Inodes |-> DefaultAttr]
    /\ ignore_uid = FALSE
    /\ ignore_gid = FALSE
    /\ ignore_perms = FALSE
    /\ ignore_empty \in BOOLEAN
    /\ symbolic \in BOOLEAN
    /\ debug \in BOOLEAN

\* the second start: the program run once for real on three names, where
\* the attributes, the kinds of file and the option flags vary
InitOpts ==
    /\ InitAttrs \/ InitKinds
    /\ dir0 = dir
    /\ bak = [k \in BackupNames |-> NoFile]
    /\ ext = [i \in Inodes |-> 0]
    /\ noexec = FALSE
    /\ verbose = FALSE
    /\ InitRun

Next ==
    \/ Enter
    \/ Associated
    \/ Fatal
    \/ MainLoop
    \/ Combine
    \/ Comb2End
    \/ Replace
    \/ Rename
    \/ Link
    \/ Restore
    \/ Unlink
    \/ Restart

Spec == Init /\ [][Next]_vars

\* the starts with three files of one link each, a and b of the same bytes
InitFair ==
    /\ Init
    /\ \A n, m \in Names : dir[n] = dir[m] => n = m
    /\ \A i \in Inodes : ext[i] = 0
    /\ content[100] = X
    /\ content[101] = X
    /\ content[102] \in {X, Y}
    /\ ~noexec

\* the program keeps running: it is sequential and every call it makes returns
FairSpec == InitFair /\ [][Next]_vars /\ WF_vars(Next)

\* the same program from the second start
SpecOpts == InitOpts /\ [][Next]_vars

\* the bytes of a file, and the files of up to MaxLen bytes
Bytes == {1, 2}
Files == UNION {[1..n -> Bytes] : n \in 0..MaxLen}

\* compare called by itself: a and b are any two files, b may be missing
\* and either may be unreadable; c is missing or another name of a's file
InitCompare ==
    /\ \E ib \in {101, NoFile}, ic \in {100, NoFile} :
         dir = [n \in Names |-> IF n = "a" THEN 100 ELSE IF n = "b" THEN ib ELSE ic]
    /\ dir0 = dir
    /\ bak = [k \in BackupNames |-> NoFile]
    /\ content \in {f \in [Inodes -> Files] : f[102] = <<>> /\ f[103] = <<>>}
    /\ readable \in {f \in [Inodes -> BOOLEAN] : f[102] /\ f[103]}
    /\ ext = [i \in Inodes |-> 0]
    /\ attr = [i \in Inodes |-> DefaultAttr]
    /\ ftype = [i \in Inodes |-> "reg"]
    /\ lnk = [i \in Inodes |-> NoLink]
    /\ OneDirectory
    /\ symbolic = FALSE
    /\ debug = FALSE
    /\ noexec = FALSE
    /\ verbose = FALSE
    /\ ignore_uid = FALSE
    /\ ignore_gid = FALSE
    /\ ignore_perms = FALSE
    /\ ignore_empty = FALSE
    /\ clock = 0
    /\ niceness = 0
    /\ our_uid = -1
    /\ boost = 0
    /\ pc = "compare"
    /\ run = 1
    /\ argi = 1
    /\ list = <<>>
    /\ cur = <<>>
    /\ elem = NoInfo
    /\ todo = <<>>
    /\ kept = <<>>
    /\ from = "-"
    /\ to = "-"
    /\ newname = NoName
    /\ ret = NoRet
    /\ out = <<>>
    /\ ops = 0
    /\ anyfail = FALSE
    /\ cat = {}
    /\ cmps = {}
    /\ lastcmp = <<"-", "-", 0>>
    /\ retired = [n \in Names |-> 0]
    /\ member = [n \in Names |-> "-"]
    /\ hdr = [n \in Names |-> NoHdr]
    /\ prev = [noexec |-> FALSE, out |-> <<>>]
    /\ tried = <<>>

\* one call of compare(file1, file2)
CompareCall ==
    /\ pc = "compare"
    /\ \E file1, file2 \in Names :
         /\ lastcmp' = <<file1, file2, compare(dir, file1, file2)>>
         /\ cmps' = {<<file1, file2, compare(dir, file1, file2)>>}
    /\ pc' = "compared"
    /\ UNCHANGED <<fsvars, optvars, clock, niceness, boost, our_uid, run, argi, list, cur,
                   elem, todo, kept, r2vars, out, ops, anyfail, cat, retired, member, hdr,
                   dir0, prev, tried>>

\* compare by itself
SpecCompare == InitCompare /\ [][CompareCall]_vars

\* the third start: three files of the same bytes on three inodes, with up
\* to MaxExt + 1 links from outside the list each, in one real run
InitLinks ==
    /\ dir = [n \in Names |-> IF n = "a" THEN 100 ELSE IF n = "b" THEN 101 ELSE 102]
    /\ dir0 = dir
    /\ bak = [k \in BackupNames |-> NoFile]
    /\ content = [i \in Inodes |-> X]
    /\ ext \in {f \in [Inodes -> 0..(MaxExt + 1)] : f[103] = 0}
    /\ attr = [i \in Inodes |-> DefaultAttr]
    /\ ftype = [i \in Inodes |-> "reg"]
    /\ lnk = [i \in Inodes |-> NoLink]
    /\ OneDirectory
    /\ readable = [i \in Inodes |-> TRUE]
    /\ symbolic = FALSE
    /\ debug = FALSE
    /\ noexec = FALSE
    /\ verbose \in BOOLEAN
    /\ ignore_uid = FALSE
    /\ ignore_gid = FALSE
    /\ ignore_perms = FALSE
    /\ ignore_empty = FALSE
    /\ InitRun

\* the same program from the third start
SpecLinks == InitLinks /\ [][Next]_vars

\* the fourth start: a and c are files of the same bytes and b is a symbolic
\* link to a, each with up to one link from outside the list, in one real
\* run with or without -s
InitSymlinks ==
    /\ dir = [n \in Names |-> IF n = "a" THEN 100 ELSE IF n = "b" THEN 101 ELSE 102]
    /\ dir0 = dir
    /\ bak = [k \in BackupNames |-> NoFile]
    /\ content = [i \in Inodes |-> IF i = 101 THEN <<>> ELSE X]
    /\ ext \in {f \in [Inodes -> 0..1] : f[103] = 0}
    /\ attr = [i \in Inodes |-> DefaultAttr]
    /\ ftype = [i \in Inodes |-> IF i = 101 THEN "lnk" ELSE "reg"]
    /\ lnk = [i \in Inodes |-> IF i = 101 THEN [type |-> "reg", name |-> "a"] ELSE NoLink]
    /\ OneDirectory
    /\ readable = [i \in Inodes |-> TRUE]
    /\ symbolic \in BOOLEAN
    /\ debug = FALSE
    /\ noexec = FALSE
    /\ verbose \in BOOLEAN
    /\ ignore_uid = FALSE
    /\ ignore_gid = FALSE
    /\ ignore_perms = FALSE
    /\ ignore_empty = FALSE
    /\ InitRun

\* the same program from the fourth start
SpecSymlinks == InitSymlinks /\ [][Next]_vars

\* the fifth start: a is a file in the first directory and c, given last, a
\* symbolic link there with the relative name of a written in it; b is a
\* file with a's bytes and attributes that may lie in a second directory,
\* where the name written in c is the name of another file, or of none
InitDirs ==
    /\ dir = [n \in Names |-> IF n = "a" THEN 100 ELSE IF n = "b" THEN 101 ELSE 102]
    /\ dir0 = dir
    /\ bak = [k \in BackupNames |-> NoFile]
    /\ content \in {f \in [Inodes -> {<<>>, X, Y}] :
                       f[100] = X /\ f[101] = X /\ f[102] = <<>> /\ f[103] # <<>>}
    /\ ext = [i \in Inodes |-> IF i = 103 THEN 1 ELSE 0]
    /\ attr \in {f \in [Inodes -> Attrs] : \A i \in 100..102 : f[i] = DefaultAttr}
    /\ ftype = [i \in Inodes |-> IF i = 102 THEN "lnk" ELSE "reg"]
    /\ lnk = [i \in Inodes |-> IF i = 102 THEN [type |-> "reg", name |-> "a"] ELSE NoLink]
    /\ readable = [i \in Inodes |-> TRUE]
    /\ place \in {f \in [Names -> 1..2] : f["a"] = 1 /\ f["c"] = 1}
    /\ far \in {103, NoFile}
    /\ symbolic \in BOOLEAN
    /\ debug = FALSE
    /\ noexec = FALSE
    /\ verbose \in BOOLEAN
    /\ ignore_uid = FALSE
    /\ ignore_gid = FALSE
    /\ ignore_perms = FALSE
    /\ ignore_empty = FALSE
    /\ InitRun

\* the same program from the fifth start
SpecDirs == InitDirs /\ [][Next]_vars

(* ---------------------------------------------------------------------- *)
(* Properties                                                              *)
(* ---------------------------------------------------------------------- *)
\* the file behind the name n in the directory d, through a symbolic link
\* if it is one
TargetIn(d, n) ==
    IF d[n] # NoFile /\ ftype[d[n]] = "lnk" THEN Behind(d, place[n], d[n]) ELSE d[n]

\* the file behind the name n before the first run
Target0(n) == TargetIn(dir0, n)

\* the file behind the name n
Target(n) == TargetIn(dir, n)

\* the file behind the save file k, through a symbolic link if it is one
SavedTarget(k) ==
    IF bak[k] # NoFile /\ ftype[bak[k]] = "lnk" THEN Behind(dir, place[k[1]], bak[k]) ELSE bak[k]

\* the bytes a name held before the first run (contents are never written)
content0(n) == content[Target0(n)]

\* the name n resolves to a file with the bytes it held before the run
Resolves(n) == Target(n) # NoFile /\ content[Target(n)] = content0(n)

\* a save file made for the name n holds the bytes n held before the run
BackedUp(n) ==
    \E k \in BackupNames :
        k[1] = n /\ SavedTarget(k) # NoFile /\ content[SavedTarget(k)] = content0(n)

NoBackups == \A k \in BackupNames : bak[k] = NoFile

\* the bytes b are held by a save file
Saved(b) ==
    \E k \in BackupNames : SavedTarget(k) # NoFile /\ content[SavedTarget(k)] = b

\* C1: at every state between two filesystem primitives every path that
\* led to a file before the run resolves to a file with its pre-run bytes.
\* A path that does not resolve while a save file holds its bytes (the "to"
\* of a swap between rename and link, or after a failed restoring rename)
\* is let pass here.
C1_PathOrSaved ==
    \A n \in Names : Target0(n) # NoFile => (Resolves(n) \/ Saved(content0(n)))

\* C2: when a run has terminated, whatever primitives failed, every path
\* that led to a file before the run still resolves to a file with its
\* pre-run bytes. A path whose bytes a save file holds (after a failed
\* restoring rename) is let pass here.
C2_FinalContent ==
    (pc = "exit") =>
        \A n \in Names : Target0(n) # NoFile => (Resolves(n) \/ Saved(content0(n)))

\* C3: after a first run in which every primitive succeeded, a second run
\* over the same candidates calls no rename, link or unlink.
C3_Idempotent == (run = 2) => ops = 0

\* C4: when the run has ended with every primitive succeeding, two members
\* of a class resolve to the same inode exactly if their bytes are equal.
C4_Partition ==
    (pc = "exit" /\ ~anyfail /\ ~noexec) =>
        \A n, m \in Names :
            (member[n] # "-" /\ member[n] = member[m]) =>
                ((dir[n] = dir[m]) <=> (content[dir[n]] = content[dir[m]]))

\* C5: every link(from, to) joins two members of one class (same size and
\* device, and same owner, group and mode unless ignored) that compare
\* found equal immediately before, and no name is ever relinked to an inode
\* whose bytes differ from the name's pre-run bytes.
C5_LinkOnlyEqual ==
    /\ (pc = "link") =>
          /\ member[from] # "-"
          /\ member[from] = member[to]
          /\ Fits(hdr[from], hdr[to])
          /\ lastcmp \in {<<from, to, 0>>, <<to, from, 0>>}
          /\ dir[from] # NoFile
          /\ bak[newname] # NoFile
          /\ Target(from) # NoFile =>
                content[Target(from)] = content[SavedTarget(newname)]
    /\ \A n \in Names : (dir[n] # NoFile /\ dir[n] # dir0[n]) => Resolves(n)

\* C6: compare is never called on two files whose recorded sizes or
\* devices differ: both files are members of one class.
C6_CompareWithinClass ==
    \A c \in cmps :
        /\ hdr[c[1]].h_size = hdr[c[2]].h_size
        /\ hdr[c[1]].h_dev = hdr[c[2]].h_dev
        /\ member[c[1]] # "-"
        /\ member[c[1]] = member[c[2]]

\* compare has been called while the candidates include files of two sizes
C6_Witness ==
    /\ cmps # {}
    /\ \E n, m \in Names : hdr[n].h_size > 0 /\ hdr[m].h_size > hdr[n].h_size

\* C7: in a dry run (noexec) no rename, link, unlink or nice is called:
\* directory entries and link counts stay as they were before the run.
C7_DryRunPure ==
    noexec =>
        /\ dir = dir0
        /\ NoBackups
        /\ \A i \in Inodes : nlink(dir, bak, i) = nlink(dir0, bak, i)
        /\ ops = 0
        /\ niceness = 0
        /\ our_uid = -1
        /\ pc \notin {"rename", "link", "restore", "unlink"}

\* a dry run has reported a pair it would link
C7_Witness ==
    /\ noexec
    /\ pc = "exit"
    /\ \E i \in 1..Len(out) : out[i][2] = "link"

\* the filesystem of Scenario 1: a and b hold X on inodes 100 and 101 with
\* one link each, c holds Y on inode 102
Scenario1 ==
    /\ dir0 = [n \in Names |-> IF n = "a" THEN 100 ELSE IF n = "b" THEN 101 ELSE 102]
    /\ content[100] = X /\ content[101] = X /\ content[102] = Y
    /\ ext[100] = 0 /\ ext[101] = 0

\* C8 as stated: in Scenario 1, with the candidates entered as a, b, c and
\* every primitive succeeding, b is retired and the run ends with a and b
\* on inode 100 and c on inode 102.
C8_Scenario1_bRetired ==
    (Scenario1 /\ ~noexec /\ ~anyfail /\ pc = "exit") =>
        /\ dir["a"] = 100 /\ dir["b"] = 100 /\ dir["c"] = 102
        /\ retired["b"] = 1 /\ retired["a"] = 0

\* C8 as amended: in Scenario 1, with the candidates entered as a, b, c and
\* every primitive succeeding, a is the name retired and relinked, and the
\* run ends with a and b on inode 101 and c on inode 102.
C8_Scenario1_aRetired ==
    (Scenario1 /\ ~noexec /\ ~anyfail /\ pc = "exit") =>
        /\ dir["a"] = 101 /\ dir["b"] = 101 /\ dir["c"] = 102
        /\ retired["a"] = 1 /\ retired["b"] = 0 /\ retired["c"] = 0

\* Scenario 1 has run to its end without a failure
C8_Witness ==
    /\ Scenario1 /\ ~noexec /\ ~anyfail /\ pc = "exit" /\ run = 1
    /\ ops = 3

\* the filesystem of Scenario 2: a has 3 links, b has 1, same bytes
Scenario2 ==
    /\ dir0["a"] = 100 /\ dir0["b"] = 101 /\ dir0["c"] = 102
    /\ content[100] = content[101]
    /\ ext[100] = 2 /\ ext[101] = 0

\* C9: when replace consolidates a pair with different link counts, the
\* name with the lower count is the one retired ("to"), be it the head or
\* the tail member; in Scenario 2 (a 3 links, b 1 link) b is retired.
C9_LowerCountRetired ==
    /\ (pc = "rename") =>
          nlink(dir, bak, dir[to]) <= nlink(dir, bak, dir[from])
    /\ (Scenario2 /\ pc = "rename" /\ {from, to} = {"a", "b"} /\ dir = dir0) => to = "b"
    /\ \A i \in 1..Len(out) :
          (noexec /\ out[i][2] = "link") =>
              nlink(dir, bak, dir[out[i][3]]) <= nlink(dir, bak, dir[out[i][4]])

\* the head of the sweep is about to be retired, having fewer links
C9_Witness ==
    /\ pc = "rename"
    /\ to = elem.i_name
    /\ nlink(dir, bak, dir[to]) < nlink(dir, bak, dir[from])

\* C10: Scenario 3: when rename(b, backup) succeeded, link(a, b) failed and
\* the restoring rename(backup, b) succeeds, then b is back on its inode,
\* a is untouched, the backup name is gone and the failure of the pair is
\* reported on stderr.
C10_RestoredAfterLinkFailure ==
    [][(pc = "restore" /\ to \notin cat') =>
          /\ dir'[to] = bak[newname]
          /\ TargetIn(dir', to) # NoFile
          /\ content[TargetIn(dir', to)] = content0(to)
          /\ \A n \in Names \ {to} : dir'[n] = dir[n]
          /\ bak'[newname] = NoFile
          /\ \A k \in BackupNames \ {newname} : bak'[k] = bak[k]
          /\ Len(out') = Len(out) + 1
          /\ out'[Len(out')] = <<"stderr", "failed to link", to, from>>]_vars

\* Scenario 3 has happened: the first demotion of the run failed at the
\* link, the restoring rename succeeded and the failure was reported
C10_Witness ==
    /\ pc = "comb2"
    /\ ops = 3
    /\ cat = {}
    /\ dir = dir0
    /\ NoBackups
    /\ out # <<>>
    /\ out[Len(out)][2] = "failed to link"

\* the pair comb2 is working on, in the direction replace chose first
FirstDirection(d, b) ==
    Direction(elem, Head(todo), lstat(d, b, elem.i_name), lstat(d, b, Head(todo).i_name))

\* C11: when the first demotion attempt on a pair fails recoverably, that is
\* rename(to, backup) fails, or link fails and the restoring rename succeeds,
\* replace goes on to attempt the demotion the other way round, with from
\* and to swapped.
C11_ReverseAttempted ==
    [][(/\ pc \in {"rename", "restore"}
        /\ pc' # "link"
        /\ to \notin cat'
        /\ <<from, to>> = FirstDirection(dir', bak')) =>
          (pc' = "rename" /\ from' = to /\ to' = from)]_vars

\* C12: when rename(to, backup) succeeded, link(from, to) failed and the
\* restoring rename(backup, to) failed too, replace2 writes a message to
\* stderr (the one that names the backup, "copy has been left on"), whether
\* or not the debug flag is set: the outcome is never silent.
C12_CatastropheReported ==
    [][(pc = "restore" /\ to \in cat') =>
          /\ Len(out') = Len(out) + 1
          /\ out'[Len(out')][1] = "stderr"
          /\ out'[Len(out')][3] \in {to, newname[1]}]_vars

\* C13: when the demotion of a pair of equal files fails at rename(to, backup),
\* with nothing changed in the filesystem, a warning about the pair is
\* written to stderr, also when the debug flag is off.
C13_FailureReported ==
    [][(pc = "rename" /\ pc' # "link") =>
          /\ Len(out') = Len(out) + 1
          /\ out'[Len(out')][1] = "stderr"]_vars

\* C13 as amended: when rename(to, backup) fails, nothing changes in the
\* filesystem, and the message about the pair is written to stderr exactly
\* when the debug flag is set; with the flag off nothing is written.
C13_FailureReportedInDebug ==
    [][(pc = "rename" /\ pc' # "link") =>
          /\ UNCHANGED <<dir, bak, content>>
          /\ out' = IF debug THEN Append(out, <<"stderr", "rename", to, from>>) ELSE out]_vars

\* the first rename(to, backup) of a run without the debug flag has failed
\* and nothing has been written
C13_Witness ==
    /\ pc = "comb2"
    /\ ops = 1
    /\ anyfail
    /\ ~debug
    /\ out = <<>>
    /\ dir = dir0

\* C14: when replace(a, b) is called on two names that resolve to one inode
\* at that moment, it calls no rename, link or unlink and b is removed from
\* the tail, also when one of the names was relinked earlier in the run.
C14_SameInodeNoMutation ==
    [][(/\ pc = "comb2"
        /\ todo # <<>>
        /\ dir[elem.i_name] # NoFile
        /\ dir[elem.i_name] = dir[Head(todo).i_name]) =>
          /\ ops' = ops
          /\ pc' = "comb2"
          /\ todo' = Tail(todo)
          /\ kept' = kept
          /\ UNCHANGED <<dir, bak>>]_vars

\* C15: when compare reports the head and the tail member m different, or
\* cannot open one of them, nothing in the filesystem changes and no
\* rename, link or unlink is called for the pair, m is kept in the tail and
\* the sweep goes on with the next tail member; the members kept are the
\* list the next head is taken from.
C15_DifferentKept ==
    /\ [][(/\ pc = "comb2"
           /\ todo # <<>>
           /\ elem.i_ino # Head(todo).i_ino
           /\ compare(dir, elem.i_name, Head(todo).i_name) # 0) =>
             /\ UNCHANGED <<dir, bak, content>>
             /\ ops' = ops
             /\ pc' = "comb2"
             /\ kept' = Append(kept, Head(todo))
             /\ todo' = Tail(todo)]_vars
    /\ [][(pc = "comb2" /\ todo = <<>>) => (pc' = "combine" /\ cur' = kept)]_vars
    /\ [][(pc = "combine" /\ Len(cur) >= 2) =>
             (pc' = "comb2" /\ elem' = cur[1] /\ todo' = Tail(cur))]_vars

\* a member that compare found different from an earlier head is the head now
C15_Witness ==
    /\ pc = "comb2"
    /\ todo # <<>>
    /\ ops = 0
    /\ \E c \in cmps : c[3] = 1 /\ c[2] = elem.i_name

\* replace2 stands between raisepriority and lowerpriority
Boosted == pc \in {"rename", "link", "restore"}

\* C16: on every way out of replace2 after raisepriority (rename failed,
\* link failed and the restore succeeded or failed, success) lowerpriority
\* has been called exactly once: one call of raisepriority is outstanding
\* inside the critical section and none outside it, niceness is 0 outside
\* it and never below PRIORITY.
C16_BoostScoped ==
    /\ boost = IF Boosted THEN 1 ELSE 0
    /\ ~Boosted => niceness = 0
    /\ niceness >= PRIORITY
    /\ (Boosted /\ our_uid = 0) => niceness = PRIORITY

\* the super-user's run has left replace2 on each of its ways out: a failed
\* restoring rename, and a link that succeeded
C16_Witness ==
    /\ pc = "comb2"
    /\ our_uid = 0
    /\ cat # {}
    /\ \E n \in Names : retired[n] > 0
    /\ niceness = 0

\* C17: a fatal exit happens before the first rename, link or unlink of the
\* run: fatal is reached from classification only, classification is over
\* (every argument entered) before combine starts, and no step of combine,
\* comb2, replace or replace2 leads to fatal.
C17_FatalBeforeMutation ==
    /\ [](pc = "fatal" => (ops = 0 /\ NoBackups /\ boost = 0))
    /\ [](pc \notin {"associate", "fatal"} => argi = Len(Args) + 1)
    /\ [][pc # "associate" => pc' # "fatal"]_vars
    /\ [][ops' # ops => pc' # "fatal"]_vars

\* the run has ended in fatal after it had entered files in the list
C17_Witness ==
    /\ pc = "fatal"
    /\ list # <<>>
    /\ out # <<>>
    /\ out[Len(out)][1] = "stderr"

\* a call of rename, link, unlink, open or lstat failed in this step
FailedStep ==
    \/ pc = "rename" /\ pc' # "link"
    \/ pc = "link" /\ pc' = "restore"
    \/ pc = "restore" /\ to \in cat'
    \/ pc = "unlink" /\ bak'[newname] # NoFile
    \/ pc = "comb2" /\ lastcmp' # lastcmp /\ lastcmp'[3] = -1
    \/ pc = "comb2" /\ Len(out') > Len(out) /\ out'[Len(out')][2] = "Cannot restat"

KeyMatches(h, c) ==
    /\ h.h_size = c.h_size
    /\ h.h_dev = c.h_dev
    /\ ignore_uid \/ h.h_uid = c.h_uid
    /\ ignore_gid \/ h.h_gid = c.h_gid
    /\ ignore_perms \/ h.h_perms = c.h_perms

\* the key of a class
Key(c) == <<c.h_size, c.h_dev, c.h_uid, c.h_gid, c.h_perms>>

\* the names of the members of a class
MemberNames(c) == {c.h_info[j].i_name : j \in 1..Len(c.h_info)}

\* C19: a step of classification that enters a candidate puts it in the
\* first class of the list whose key matches (size and device equal, owner,
\* group and mode equal unless ignored) and leaves every other class as it
\* was; when no class matches, a new class with the candidate's key and the
\* candidate as its only member is pushed on the front of the list. No other
\* step of classification changes the list.
C19_FirstFit ==
    [][(pc = "associate" /\ pc' = "associate" /\ list' # list) =>
          LET h == newinfo(dir, bak, Args[argi]).head
              fit == {i \in 1..Len(list) : KeyMatches(h, list[i])}
          IN  /\ argi' = argi + 1
              /\ newinfo(dir, bak, Args[argi]).ret = NOTDIR
              /\ IF fit = {}
                 THEN /\ Len(list') = Len(list) + 1
                      /\ Tail(list') = list
                      /\ MemberNames(list'[1]) = {Args[argi]}
                      /\ Len(list'[1].h_info) = 1
                      /\ Key(list'[1]) = Key(h)
                 ELSE /\ Len(list') = Len(list)
                      /\ \E k \in fit :
                           /\ \A j \in fit : k <= j
                           /\ \A i \in 1..Len(list) : i # k => list'[i] = list[i]
                           /\ Key(list'[k]) = Key(list[k])
                           /\ MemberNames(list'[k]) = MemberNames(list[k]) \cup {Args[argi]}
                           /\ Len(list'[k].h_info) = Len(list[k].h_info) + 1]_vars

\* b did not fit a's class and was pushed in front of it; c, whose
\* attributes differ from a's in what is ignored, joined a's class
C19_Witness ==
    /\ pc = "associate"
    /\ Len(list) = 2
    /\ MemberNames(list[1]) = {"b"}
    /\ MemberNames(list[2]) = {"a", "c"}
    /\ hdr["a"] # hdr["c"]

\* the candidate n is absent, a directory, a special file, a symbolic link
\* that is not followed or has no regular file behind it, or an empty file
\* under -z
Excluded(n) ==
    \/ dir0[n] = NoFile
    \/ ftype[dir0[n]] \in {"dir", "chr"}
    \/ ftype[dir0[n]] = "lnk" /\ (~symbolic \/ lnk[dir0[n]].type # "reg")
    \/ ignore_empty /\ Target0(n) # NoFile /\ Len(content[Target0(n)]) = 0

\* the candidate n is a file that cannot be opened for reading
Unreadable(n) == Target0(n) # NoFile /\ ~readable[Target0(n)]

\* the classes n is a member of
ClassesOf(n) == {i \in 1..Len(list) : n \in MemberNames(list[i])}

\* n is in no class and no list, no message is about it, and it has not
\* been renamed, linked to or unlinked
Untouched(n) ==
    /\ ClassesOf(n) = {}
    /\ \A j \in 1..Len(cur) : cur[j].i_name # n
    /\ elem.i_name # n
    /\ \A j \in 1..Len(out) : out[j][3] # n /\ out[j][4] # n
    /\ n \notin {from, to}
    /\ dir[n] = dir0[n]
    /\ \A k \in BackupNames : k[1] = n => bak[k] = NoFile

\* classification has entered every argument
Classified == pc = "associate" /\ argi = Len(Args) + 1

Removed == pc' = "comb2" /\ todo' = Tail(todo) /\ kept' = kept

\* this step of the sweep keeps the tail member
Kept == pc' = "comb2" /\ todo' = Tail(todo) /\ kept' = Append(kept, Head(todo))

\* replace2 is at one of its primitives
InReplace2 == pc \in {"rename", "link", "restore", "unlink"}

\* C21: in a real run the sweep of head h removes the tail member m exactly
\* when h and m share an inode afterwards (they were linked already, or
\* the demotion succeeded); a member whose demotion failed is kept.
C21_RemovedIffMerged ==
    [][(~noexec /\ todo # <<>> /\ todo' = Tail(todo) /\ pc' = "comb2") =>
          (Removed <=> /\ dir'[elem.i_name] # NoFile
                       /\ dir'[elem.i_name] = dir'[Head(todo).i_name])]_vars

\* C21 as amended: the sweep of head h removes the tail member m exactly
\* when the inode numbers recorded for h and m at classification are equal,
\* or compare found their bytes equal and both could be restat'd, whether
\* the demotion that follows succeeds or fails; m is kept exactly when
\* compare did not return 0 or a restat failed.
C21_RemovedIffEqual ==
    /\ [][(pc = "comb2" /\ todo # <<>>) =>
             IF elem.i_ino = Head(todo).i_ino THEN Removed
             ELSE IF compare(dir, elem.i_name, Head(todo).i_name) # 0 THEN Kept
             ELSE \/ ~noexec /\ pc' = "rename" /\ UNCHANGED <<todo, kept>>
                  \/ noexec /\ Removed
                  \/ /\ Kept
                     /\ Len(out') = Len(out) + 1
                     /\ out'[Len(out')][2] = "Cannot restat"]_vars
    /\ [][(InReplace2 /\ pc' = "comb2") => Removed]_vars
    /\ [][(InReplace2 /\ pc' # "comb2") => (InReplace2' /\ UNCHANGED <<todo, kept>>)]_vars

\* the first demotion of a class of three failed at rename(to, backup),
\* nothing changed, and the tail member is gone from the tail all the same
C21_Witness ==
    /\ pc = "comb2"
    /\ ops = 1
    /\ anyfail
    /\ dir = dir0
    /\ NoBackups
    /\ Len(cur) = 3
    /\ Len(todo) = 1
    /\ kept = <<>>

\* the place of x in the sequence s of distinct members
Pos(s, x) == CHOOSE i \in 1..Len(s) : s[i] = x

\* k is made of members of s, in the order they have in s
InOrder(k, s) ==
    /\ \A i \in 1..Len(k) : \E j \in 1..Len(s) : s[j] = k[i]
    /\ \A i, j \in 1..Len(k) : i < j => Pos(s, k[i]) < Pos(s, k[j])

\* C22: during a sweep the head is the first member of combine's list, the
\* members not yet tried are a suffix of that list and the members kept are
\* in list order among those tried; every compare and every demotion is on
\* the head and the first member not yet tried; the tail only shrinks from
\* its front; only when the tail is used up do the members kept become the
\* list, whose first member is the next head, the old head being dropped;
\* combine leaves the class as soon as fewer than two members remain.
C22_SweepOrder ==
    /\ []((pc = "comb2" \/ InReplace2) =>
             /\ Len(cur) >= 2
             /\ elem = cur[1]
             /\ Len(todo) < Len(cur)
             /\ todo = SubSeq(cur, Len(cur) - Len(todo) + 1, Len(cur))
             /\ InOrder(kept, SubSeq(cur, 2, Len(cur) - Len(todo))))
    /\ [][InReplace2' =>
             /\ todo # <<>>
             /\ {from', to'} = {elem.i_name, Head(todo).i_name}
             /\ UNCHANGED <<elem, cur>>]_vars
    /\ [][(pc = "comb2" /\ cmps' # cmps) =>
             /\ todo # <<>>
             /\ lastcmp'[1] = elem.i_name
             /\ lastcmp'[2] = Head(todo).i_name]_vars
    /\ [][(pc = "comb2" \/ InReplace2) =>
             (todo' = todo \/ (todo # <<>> /\ todo' = Tail(todo)))]_vars
    /\ [][(pc = "comb2" /\ pc' = "combine") => (todo = <<>> /\ cur' = kept)]_vars
    /\ [][(pc = "combine") =>
             IF Len(cur) >= 2
             THEN pc' = "comb2" /\ elem' = cur[1] /\ todo' = Tail(cur) /\ kept' = <<>>
             ELSE pc' = "main"]_vars

\* the head of a class of three has been swept against the whole tail: the
\* first tail member was kept, the second was linked, and the tail is used up
C22_Witness ==
    /\ pc = "comb2"
    /\ Len(cur) = 3
    /\ todo = <<>>
    /\ kept = <<cur[2]>>
    /\ retired[cur[1].i_name] + retired[cur[3].i_name] = 1

\* C23: within one demotion link(from, to) is called only after
\* rename(to, backup) has succeeded, so that the backup name holds the file
\* "to" was; unlink(backup) is called only after link(from, to) has
\* succeeded; and a backup name is removed only by that unlink, with "to"
\* on from's inode (or, where link follows a symbolic link, on the inode
\* behind it), or by the restoring rename, which puts the file back under
\* "to".
C23_ProtocolOrder ==
    /\ [][(pc' = "link" /\ pc # "link") =>
             /\ pc = "rename"
             /\ dir[to] # NoFile
             /\ bak'[newname] = dir[to]
             /\ UNCHANGED r2vars]_vars
    /\ [][(pc' = "unlink" /\ pc # "unlink") =>
             /\ pc = "link"
             /\ dir[from] # NoFile
             /\ dir'[to] \in LinkSources(dir, from)
             /\ UNCHANGED r2vars]_vars
    /\ [](pc = "unlink" => (dir[to] # NoFile /\ dir[to] \in LinkSources(dir, from)))
    /\ [][(\E k \in BackupNames : bak[k] # NoFile /\ bak'[k] = NoFile) =>
             \/ pc = "unlink" /\ dir[to] # NoFile /\ dir[to] \in LinkSources(dir, from)
             \/ pc = "restore" /\ dir'[to] = bak[newname]]_vars

\* a demotion stands before unlink(backup): "to" is on from's inode, which
\* is not the one it was on before the run, and the backup name holds a file
C23_Witness ==
    /\ pc = "unlink"
    /\ bak[newname] # NoFile
    /\ dir[to] = dir[from]
    /\ dir[to] # dir0[to]
    /\ bak[newname] = dir0[to]

\* C24: when replace2(from, to) returns in a real run, it returns -1 exactly
\* when "to" is absent under its own name and the backup name holds its
\* file; it returns 0 only when the filesystem is as before the call, so
\* that "to" and "from" are there and the backup name is not; it returns 1
\* only when "to" resolves to from's inode.
C24_ReturnCodes ==
    [][(InReplace2 /\ ret' # NoRet) =>
          /\ ret' \in {-1, 0, 1}
          /\ (ret' = -1) <=> (dir'[to] = NoFile /\ bak'[newname] # NoFile)
          /\ (ret' = 0) => (dir'[to] # NoFile /\ dir'[from] # NoFile /\ UNCHANGED <<dir, bak>>)
          /\ (ret' = 1) => (dir'[to] # NoFile /\ dir'[to] = dir'[from])]_vars

\* C25: when rename(to, backup) fails, so that the backup name does not get
\* the file of "to", replace2 returns at once: the rename is the only call
\* it has made, no link, rename or unlink follows, and the directory
\* entries, the files and the link counts of "to" and "from" are as before.
C25_RenameFailureFrame ==
    [][(pc = "rename" /\ bak'[newname] # dir[to]) =>
          /\ pc' = "comb2"
          /\ ret' = 0
          /\ from' = "-" /\ to' = "-"
          /\ ops' = ops + 1
          /\ UNCHANGED <<dir, bak, content, ext>>
          /\ nlink(dir', bak', dir'[to]) = nlink(dir, bak, dir[to])
          /\ nlink(dir', bak', dir'[from]) = nlink(dir, bak, dir[from])
          /\ boost' = 0]_vars

\* the second demotion of a run has failed at rename(to, backup), after a
\* first one that went through: replace2 has returned 0 and no backup
\* name holds a file
C25_Witness ==
    /\ pc = "comb2"
    /\ ret = 0
    /\ ops = 4
    /\ cat = {}
    /\ NoBackups
    /\ \E n \in Names : retired[n] = 1

\* C26: the backup name built for a demotion is not the name of a file at
\* that moment, so that rename(to, backup) never replaces a file.
C26_BackupNameFree == (pc = "rename") => bak[newname] = NoFile

\* the class c, as a header without members
ClassKey(c) == [c EXCEPT !.h_info = <<>>]

\* C27: while files are entered, every member of every class is a file whose
\* size and device are those of the class header, and whose owner, group
\* and mode are the header's unless the flag to ignore them is set; a step
\* of classification leaves every member in a class with the header it had,
\* and afterwards the list only loses its first class, members and all.
C27_ClassInvariant ==
    /\ [](pc = "associate" =>
             \A i \in 1..Len(list) : \A n \in MemberNames(list[i]) :
                 /\ Target(n) # NoFile
                 /\ Len(content[Target(n)]) = list[i].h_size
                 /\ attr[Target(n)].dev = list[i].h_dev
                 /\ ignore_uid \/ attr[Target(n)].uid = list[i].h_uid
                 /\ ignore_gid \/ attr[Target(n)].gid = list[i].h_gid
                 /\ ignore_perms \/ attr[Target(n)].perms = list[i].h_perms)
    /\ [][(pc = "associate" /\ pc' = "associate") =>
             \A i \in 1..Len(list) : \A n \in MemberNames(list[i]) :
                 \E j \in 1..Len(list') :
                     /\ n \in MemberNames(list'[j])
                     /\ ClassKey(list'[j]) = ClassKey(list[i])
                     /\ MemberNames(list[i]) \subseteq MemberNames(list'[j])]_vars
    /\ [][(pc # "associate" /\ pc' # "associate") =>
             (list' = list \/ (list # <<>> /\ list' = Tail(list)))]_vars

\* every argument has been entered under -u: two files of different
\* owners are in one class, the third file is in a class of its own
C27_Witness ==
    /\ Classified
    /\ ignore_uid
    /\ ~ignore_perms
    /\ Len(list) = 2
    /\ \E i \in 1..2 : \E n, m \in MemberNames(list[i]) :
           attr[Target(n)].uid # attr[Target(m)].uid

\* the bytes compare reads under the name n
BytesOf(n) == content[Open(dir, n)]

\* the offset of the first chunk at which the files c1 and c2 differ
FirstDifference(c1, c2) ==
    CHOOSE off \in 0..MaxLen :
        /\ off % BUFSIZ = 0
        /\ ReadChunk(c1, off) # ReadChunk(c2, off)
        /\ \A o \in 0..(off - 1) : o % BUFSIZ = 0 => ReadChunk(c1, o) = ReadChunk(c2, o)

\* C28: compare returns -1 exactly when one of the two files cannot be
\* opened; it returns 0 exactly when both can and their bytes are the same,
\* two empty files included; otherwise it returns 1, and its loop ends at
\* the first chunk in which the files differ in length or bytes.
C28_CompareCorrect ==
    (pc = "compared") =>
        LET file1 == lastcmp[1]
            file2 == lastcmp[2]
            r == lastcmp[3]
            opened == Open(dir, file1) # NoFile /\ Open(dir, file2) # NoFile
        IN  /\ r \in {-1, 0, 1}
            /\ (r = -1) <=> ~opened
            /\ (r = 0) <=> (opened /\ BytesOf(file1) = BytesOf(file2))
            /\ (r = 1) =>
                  CompareStop(BytesOf(file1), BytesOf(file2), 0) =
                      FirstDifference(BytesOf(file1), BytesOf(file2))

\* compare has returned 1 on two files of MaxLen bytes that differ in
\* their last byte only
C28_Witness ==
    /\ pc = "compared"
    /\ lastcmp[3] = 1
    /\ Len(BytesOf(lastcmp[1])) = MaxLen
    /\ Len(BytesOf(lastcmp[2])) = MaxLen
    /\ SubSeq(BytesOf(lastcmp[1]), 1, MaxLen - 1) = SubSeq(BytesOf(lastcmp[2]), 1, MaxLen - 1)

\* the number of messages "linking <to> to <from>" in the output o
Linking(o) == Cardinality({i \in 1..Len(o) : o[i][2] = "linking"})

\* the number of times link(from, to) has succeeded
Linked == retired["a"] + retired["b"] + retired["c"]

\* C29: in a real run the message "linking <to> to <from>" is printed only
\* with -v, only by the step that follows a successful link(from, to), for
\* that pair, and once for every demotion whose link succeeded; a demotion
\* that fails at the rename or at the link prints none.
C29_LinkingAfterLink ==
    /\ [][(~noexec /\ Linking(out') # Linking(out) /\ pc' # "associate") =>
             /\ verbose
             /\ pc = "unlink"
             /\ dir[to] # NoFile /\ dir[to] \in LinkSources(dir, from)
             /\ Linking(out') = Linking(out) + 1
             /\ out'[Len(out')] = <<"stdout", "linking", to, from>>]_vars
    /\ [][(pc = "unlink" /\ verbose) => Linking(out') = Linking(out) + 1]_vars
    /\ []((~noexec /\ verbose /\ run = 1) =>
             Linking(out) = IF pc = "unlink" THEN Linked - 1 ELSE Linked)
    /\ [](~verbose => Linking(out) = 0)

\* a run under -v has ended: one demotion failed at the link and was
\* restored, one went through though its unlink(backup) failed, and one
\* message was printed
C29_Witness ==
    /\ pc = "exit"
    /\ verbose
    /\ ~noexec
    /\ run = 1
    /\ ops = 6
    /\ Linked = 1
    /\ Linking(out) = 1
    /\ ~NoBackups
    /\ cat = {}

\* the bytes b can still be read under one of the names or save files
Readable(b) ==
    \/ \E n \in Names : Target(n) # NoFile /\ content[Target(n)] = b
    \/ Saved(b)

\* C30: content is never destroyed: in every reachable state, whichever
\* primitives fail, the bytes every input path led to before the run can
\* still be read under a name, the path itself or a save file (the claim
\* asks for the path or its own save file; any name is accepted here).
C30_ContentKept ==
    \A n \in Names : Target0(n) # NoFile => Readable(content0(n))

\* the <<to, from>> pairs of the messages msg in the output o, in order
Pairs(o, msg) ==
    LET Is(e) == e[2] = msg
        sel == SelectSeq(o, Is)
    IN  [i \in 1..Len(sel) |-> <<sel[i][3], sel[i][4]>>]

\* C31: on the same filesystem and candidates, the pairs a dry run prints
\* ("link <to> to <from>") are, in order, the demotions a real run makes
\* when every primitive succeeds (under -v it prints "linking <to> to
\* <from>" for each).
C31_DryRunPredicts ==
    (pc = "exit" /\ prev.noexec /\ ~noexec /\ verbose /\ ~anyfail) =>
        Pairs(prev.out, "link") = Pairs(out, "linking")

\* C32: in one run each name is retired (renamed to a save file and
\* recreated by link) at most once; the head of a sweep that was retired
\* onto a tail member's inode is not retired again later in the sweep.
C32_RetiredOnce == (run = 1) => \A n \in Names : retired[n] <= 1

\* C33: when replace consolidates a pair of equal bytes whose link counts
\* are equal at that moment, the tail member (its second argument) is the
\* name retired and the head is kept, whatever the flags -u -g -p are.
C33_TieBreak ==
    [][(/\ pc = "comb2"
        /\ pc' = "rename"
        /\ nlink(dir, bak, dir[elem.i_name]) = nlink(dir, bak, dir[Head(todo).i_name])) =>
          /\ from' = elem.i_name
          /\ to' = Head(todo).i_name]_vars

\* under -u a demotion stands before its rename: head and tail member have
\* the same number of links and different owners, and the tail member is
\* the one to retire
C33_Witness ==
    /\ pc = "rename"
    /\ ignore_uid
    /\ attr[dir[from]].uid # attr[dir[to]].uid
    /\ nlink(dir, bak, dir[from]) = nlink(dir, bak, dir[to])
    /\ from = elem.i_name
    /\ to = Head(todo).i_name

\* combine is at work on the first class of the list
InCombine == pc \in {"combine", "comb2", "rename", "link", "restore", "unlink"}

\* C34: combine on a class of k members makes at most k(k-1)/2 calls of
\* replace: every sweep hands back a list strictly shorter than the list it
\* was given, a sweep of a list of n members makes at most n - 1 calls, and
\* no pair of members, in either order, is tried twice.
C34_WorkBound ==
    /\ [](InCombine =>
             LET k == Len(list[1].h_info)
             IN  /\ 2 * Len(tried) <= k * (k - 1)
                 /\ \A i, j \in 1..Len(tried) :
                       i < j => {tried[i][1], tried[i][2]} # {tried[j][1], tried[j][2]}
                 /\ \A i \in 1..Len(tried) : tried[i][1] # tried[i][2])
    /\ [][(pc = "comb2" /\ pc' = "combine") => Len(cur') < Len(cur)]_vars
    /\ [][(pc = "combine" /\ pc' = "comb2") => Len(todo') = Len(cur) - 1]_vars
    /\ [][(pc = "comb2" /\ pc' # "combine") => Len(todo') + Len(kept') < Len(cur)]_vars

\* combine has been through a class of three members of which the head
\* differs from the two others: three calls of replace, k(k-1)/2 for k = 3
C34_Witness ==
    /\ pc = "main"
    /\ Len(tried) = 3
    /\ tried[1][1] = tried[2][1]
    /\ tried[3][1] = tried[1][2]
    /\ tried[3][2] = tried[2][2]

\* the classes of the list that the header h matches
Matching(h) == {i \in 1..Len(list) : KeyMatches(h, list[i])}

\* C35: at every state of classification no two classes of the list have
\* keys that match under the flags -u -g -p, so that every candidate
\* matches at most one class and first-fit does not depend on the order in
\* which the classes are looked at.
C35_ClassesDistinct ==
    /\ \A i, j \in 1..Len(list) : i # j => ~KeyMatches(list[i], list[j])
    /\ \A n \in Names :
          newinfo(dir, bak, n).ret = NOTDIR =>
              Cardinality(Matching(newinfo(dir, bak, n).head)) <= 1

\* classification is over under -u: there are two classes, and in one of
\* them two members have different owners
C35_Witness ==
    /\ Classified
    /\ ignore_uid
    /\ Len(list) = 2
    /\ \E n, m \in Names :
          /\ member[n] # "-"
          /\ member[n] = member[m]
          /\ hdr[n].h_uid # hdr[m].h_uid

\* the owner, group and permission bits of a file
Owner(i) == <<attr[i].uid, attr[i].gid, attr[i].perms>>

\* C36: when none of -u, -g and -p is given, after a run, with or without
\* failures, every candidate name that still resolves does so to a file with
\* the owner, group and permission bits of the file it named before the run
C36_OwnerKept ==
    (pc = "exit" /\ ~ignore_uid /\ ~ignore_gid /\ ~ignore_perms) =>
        \A n \in Names :
            (Target0(n) # NoFile /\ Target(n) # NoFile) =>
                Owner(Target(n)) = Owner(Target0(n))

\* the save file k was left by a failure the run reported or recorded: an
\* unlink of a save file of that name, or a restoring rename to that name
LeftByFailure(k) ==
    \/ k[1] \in cat
    \/ \E i \in 1..Len(out) : out[i][2] = "cannot remove temporary file" /\ out[i][3] = k[1]

\* C37: after a run in which every rename, link and unlink succeeded the
\* directory entries are those from before the run, no save file remaining
\* and no candidate name missing; a save file remains after a run only if
\* the unlink of a save file or a restoring rename failed
C37_EntriesKept ==
    (pc = "exit") =>
        /\ ~anyfail => (NoBackups /\ \A n \in Names : (dir[n] = NoFile) = (dir0[n] = NoFile))
        /\ \A k \in BackupNames : bak[k] # NoFile => (anyfail /\ LeftByFailure(k))

\* a run without failures that retired a name has ended
C37_Witness ==
    /\ pc = "exit"
    /\ run = 1
    /\ ~anyfail
    /\ ops >= 3
    /\ \E n \in Names : retired[n] = 1 /\ dir[n] # dir0[n]
    /\ NoBackups

====
